---- MODULE Spec2Model ----
(***************************************************************************)
(* jsonseq: RFC 7464 JSON text sequences.                                  *)
(*                                                                         *)
(* Bytes are integers 0..255 and byte slices are sequences.  Go indexes    *)
(* slices from 0 and TLA+ sequences from 1: every operator below takes and *)
(* returns Go (0-based) offsets and converts when it touches a sequence.   *)
(* All bytes used are ASCII, so a rune of bytes.TrimLeftFunc is one byte.  *)
(***************************************************************************)
EXTENDS Integers, Sequences, FiniteSets, TLC

VARIABLES
    stream,  \* every byte the io.Reader will ever deliver (fixed per run)
    src,     \* the bytes the io.Reader has not delivered yet
    buf,     \* bufio.Scanner: s.buf[s.start:s.end]
    eof,     \* bufio.Scanner: s.err != nil (the reader returned io.EOF)
    pc,      \* where the caller's loop stands
    tok,     \* the last token ScanRecord returned (s.Bytes())
    rv,      \* the last result of RecordValue
    toks,    \* every token ScanRecord has emitted, in order
    out,     \* the outcome of every Decode call, in order
    sink,    \* the io.Writer: the bytes of every write it took, one entry per write
    werr,    \* whether the last WriteRecord call returned an error
    scan,    \* the last call of ScanRecord: its arguments and its results
    wlog,    \* the io.Writer: every call of its Write, in order, with its result
    calls    \* every call of WriteRecord and RecordWriter.Write, with its result

vars == <<stream, src, buf, eof, pc, tok, rv, toks, out, sink, werr, scan, wlog, calls>>

writer == <<sink, werr, wlog, calls>>

----------------------------------------------------------------------------
(* Program constants: src/jsonseq.go:19-25 *)
rs == 30
lf == 10
sp == 32
tb == 9
cr == 13

(* src/jsonseq.go:28 *)
wsSet == {sp, tb, lf, cr}

(* src/jsonseq.go:17, "1234567980": the ASCII codes of 0..9 *)
digitSet == 48..57

(* ASCII codes of the other bytes the inputs are built from. *)
Ch == [minus |-> 45, dot |-> 46, d0 |-> 48, d1 |-> 49, d2 |-> 50, d9 |-> 57, colon |-> 58,
       quote |-> 34, lbrack |-> 91, rbrack |-> 93, lbrace |-> 123, rbrace |-> 125,
       a |-> 97, e |-> 101, f |-> 102, l |-> 108, n |-> 110, r |-> 114,
       s |-> 115, t |-> 116, u |-> 117, x |-> 120]

kwNull == <<Ch.n, Ch.u, Ch.l, Ch.l>>
kwTrue == <<Ch.t, Ch.r, Ch.u, Ch.e>>
kwFalse == <<Ch.f, Ch.a, Ch.l, Ch.s, Ch.e>>

----------------------------------------------------------------------------
(* Slices and the bytes package. *)

\* b[from:to] with Go offsets
Slice(b, from, to) == SubSeq(b, from + 1, to)

\* b[from:]
SliceFrom(b, from) == SubSeq(b, from + 1, Len(b))

\* bytes.IndexByte: the offset of the first c in b, or -1
IndexByte(b, c) ==
    IF \E k \in 1..Len(b) : b[k] = c
    THEN (CHOOSE k \in 1..Len(b) : b[k] = c /\ \A j \in 1..(k - 1) : b[j] # c) - 1
    ELSE -1

\* bytes.HasPrefix
HasPrefix(b, p) == Len(b) >= Len(p) /\ SubSeq(b, 1, Len(p)) = p

\* the number of leading bytes of b that are in set
LeadingIn(b, set) ==
    IF \E k \in 1..Len(b) : b[k] \notin set
    THEN (CHOOSE k \in 1..Len(b) : b[k] \notin set /\ \A j \in 1..(k - 1) : b[j] \in set) - 1
    ELSE Len(b)

wsByte(b) == b \in wsSet

wsRune(r) == r \in wsSet

\* bytes.TrimLeftFunc(b, wsRune)
TrimLeftWs(b) == SliceFrom(b, LeadingIn(b, {c \in 0..255 : wsRune(c)}))

\* bytes.TrimLeft(b, digitSet)
TrimLeftDigits(b) == SliceFrom(b, LeadingIn(b, digitSet))

----------------------------------------------------------------------------
(* ScanRecord, src/jsonseq.go:186-222.  The result is (advance, token); has *)
(* tells a nil token (no token) from an empty one (data[0:0] is not nil).   *)

NoToken(advance) == [advance |-> advance, token |-> <<>>, has |-> FALSE]

Token(advance, token) == [advance |-> advance, token |-> token, has |-> TRUE]

\* src/jsonseq.go:208-210: for len(data) > 1 && data[1] == rs { data = data[1:] }
RECURSIVE DropLeadingRS(_)
DropLeadingRS(data) ==
    IF Len(data) > 1 /\ data[2] = rs
    THEN DropLeadingRS(SliceFrom(data, 1))
    ELSE data

\* ScanFromRS without the atEOF test: a record with no rs after it is emitted
\* before the reader has said that the stream is over.
ScanFromRS_Eager(data0, atEOF) ==
    LET data == DropLeadingRS(data0)
        i == IndexByte(SliceFrom(data, 1), rs)
    IN  IF i < 0
        THEN Token(Len(data), data)
        ELSE Token(1 + i, Slice(data, 0, 1 + i))

\* ScanFromRS advancing past the rs that ends the record.
ScanFromRS_EatRS(data0, atEOF) ==
    LET data == DropLeadingRS(data0)
        i == IndexByte(SliceFrom(data, 1), rs)
    IN  IF i < 0
        THEN IF atEOF THEN Token(Len(data), data) ELSE NoToken(0)
        ELSE Token(2 + i, Slice(data, 0, 1 + i))

\* ScanFromRS with the rs that ends the record inside the token.
ScanFromRS_KeepRS(data0, atEOF) ==
    LET data == DropLeadingRS(data0)
        i == IndexByte(SliceFrom(data, 1), rs)
    IN  IF i < 0
        THEN IF atEOF THEN Token(Len(data), data) ELSE NoToken(0)
        ELSE Token(2 + i, Slice(data, 0, 2 + i))

\* src/jsonseq.go:205-221: data starts with rs
ScanFromRS(data0, atEOF) ==
    LET data == DropLeadingRS(data0)
        i == IndexByte(SliceFrom(data, 1), rs)
    IN  IF i < 0
        THEN IF atEOF THEN Token(Len(data), data) ELSE NoToken(0)
        ELSE Token(1 + i, Slice(data, 0, 1 + i))

\* src/jsonseq.go:201-203: rs found at offset i > 0
ScanBeforeRS(data, i) == Token(i, Slice(data, 0, i - 1))

\* ScanNoRS skipping the bytes it has seen when it asks for more data.
ScanNoRS_Skip(data, atEOF) == IF atEOF THEN Token(Len(data), data) ELSE NoToken(Len(data))

\* src/jsonseq.go:194-200: no rs in data
ScanNoRS(data, atEOF) == IF atEOF THEN Token(Len(data), data) ELSE NoToken(0)

ScanRecord(data, atEOF) ==
    IF atEOF /\ Len(data) = 0
    THEN NoToken(0)
    ELSE LET i == IndexByte(data, rs)
         IN  IF i < 0 THEN ScanNoRS(data, atEOF)
             ELSE IF i > 0 THEN ScanBeforeRS(data, i)
             ELSE ScanFromRS(data, atEOF)

----------------------------------------------------------------------------
(* RecordValue, src/jsonseq.go:133-184.  The result is (value, flag);      *)
(* fault is TRUE when the call indexes a slice out of range and panics     *)
(* instead of returning.                                                   *)

Value(b, ok) == [b |-> b, ok |-> ok, fault |-> FALSE]

IndexOutOfRange == [b |-> <<>>, ok |-> FALSE, fault |-> TRUE]

\* src/jsonseq.go:147-152 (and 154-159, 161-166): the body of a keyword case,
\* entered when b[0] is the keyword's first byte and bytes.HasPrefix(b, kw)
KeywordValue(b, kw) ==
    IF Len(kw) >= Len(b)
    THEN IndexOutOfRange             \* b[len(kw)]
    ELSE Value(b, wsByte(b[Len(kw) + 1]))

\* DigitsValue taking any byte after the digits, white space or not, as the
\* end of the number.
DigitsValue_AnyByteEnds(b) ==
    LET t == TrimLeftDigits(b)
    IN  Value(b, Len(t) > 0)

\* src/jsonseq.go:169-173, 176-180: t := bytes.TrimLeft(b, digitSet)
DigitsValue(b) ==
    LET t == TrimLeftDigits(b)
    IN  Value(b, Len(t) > 0 /\ wsByte(t[1]))

\* SwitchValue asking white space after every value, not only after scalars.
SwitchValue_NeedsSpace(b) == Value(b, wsByte(b[Len(b)]))

\* src/jsonseq.go:145-183: the switch on b[0], b not empty
SwitchValue(b) ==
    CASE b[1] = Ch.n -> IF HasPrefix(b, kwNull) THEN KeywordValue(b, kwNull) ELSE Value(b, TRUE)
      [] b[1] = Ch.t -> IF HasPrefix(b, kwTrue) THEN KeywordValue(b, kwTrue) ELSE Value(b, TRUE)
      [] b[1] = Ch.f -> IF HasPrefix(b, kwFalse) THEN KeywordValue(b, kwFalse) ELSE Value(b, TRUE)
      [] b[1] = Ch.minus ->
            IF Len(b) < 2
            THEN IndexOutOfRange     \* b[1]
            ELSE IF Ch.d0 <= b[2] /\ b[2] <= Ch.d9
                 THEN DigitsValue(b)
                 ELSE Value(b, TRUE)
      [] b[1] \in digitSet -> DigitsValue(b)
      [] OTHER -> Value(b, TRUE)

\* src/jsonseq.go:141: b = bytes.TrimLeftFunc(b[1:], wsRune)
DropRSAndSpace(b) == TrimLeftWs(SliceFrom(b, 1))

RecordValue(b0) ==
    IF Len(b0) < 2 THEN Value(b0, FALSE)
    ELSE IF b0[1] # rs THEN Value(b0, FALSE)
    ELSE LET b == DropRSAndSpace(b0)
         IN  IF Len(b) = 0
             THEN IndexOutOfRange    \* switch b[0]
             ELSE SwitchValue(b)

\* as WriteRecordWrites, with the line feed written first and the record
\* separator last
WriteRecordWrites_LFFirst(json) == <<(<<lf>>), json, (<<rs>>)>>

----------------------------------------------------------------------------
(* WriteRecord, src/jsonseq.go:40-51: the three writes, in order. *)
WriteRecordWrites(json) == <<(<<rs>>), json, (<<lf>>)>>

----------------------------------------------------------------------------
(* Bounds and input sets. *)

\* the longest arbitrary byte stream
MaxLen == 6

\* the most records of a well-formed or written stream
MaxRecs == 2

\* the longest run of digits, and of white space, in a token given to RecordValue
MaxRun == 2

\* every sequence over set of length at most n
SeqsUpTo(set, n) == UNION {[1..k -> set] : k \in 0..n}

RECURSIVE Concat(_)
Concat(ss) == IF ss = <<>> THEN <<>> ELSE Head(ss) \o Concat(Tail(ss))

\* a separator, a white space byte, a digit, the start of an object
StreamBytes == {rs, lf, Ch.d1, Ch.lbrace}

Streams == SeqsUpTo(StreamBytes, MaxLen)

----------------------------------------------------------------------------
(* The caller's loop over Decoder.Decode (src/jsonseq.go:111-125), with    *)
(* bufio.Scanner's Scan between the reader and ScanRecord.                 *)

Outcome(kind, b) == [kind |-> kind, b |-> b]

\* ScanRecord not called yet
NoScan == [called |-> FALSE, data |-> <<>>, atEOF |-> FALSE,
           advance |-> 0, token |-> <<>>, has |-> FALSE]

\* the call ScanRecord(data, atEOF) with its result r
Scanned(data, atEOF, r) ==
    [called |-> TRUE, data |-> data, atEOF |-> atEOF,
     advance |-> r.advance, token |-> r.token, has |-> r.has]

NoValue == Value(<<>>, FALSE)

\* the state NewDecoder leaves (src/jsonseq.go:100-107) over a reader of s
Start(s) ==
    /\ stream = s
    /\ src = s
    /\ buf = <<>>
    /\ eof = FALSE
    /\ pc = "split"
    /\ tok = <<>>
    /\ rv = NoValue
    /\ toks = <<>>
    /\ out = <<>>
    /\ scan = NoScan

\* src/jsonseq.go:118-124: the token is classified and, when valid, handed to d.fn
Classify(token) ==
    LET r == RecordValue(token)
    IN  /\ rv' = r
        /\ out' = Append(out, IF r.fault THEN Outcome("panic", token)
                              ELSE IF r.ok THEN Outcome("decode", r.b)
                              ELSE Outcome("invalid", r.b))
        /\ pc' = IF r.fault THEN "panic" ELSE "split"

\* One round of Scan's loop that calls the split function: ScanRecord sees the
\* buffered bytes, atEOF once the reader has returned io.EOF.  With a token Scan
\* returns true (and Decode goes on when decode is TRUE); with none, at EOF, Scan
\* returns false and Decode returns io.EOF; with none before EOF, Scan reads.
ScanStep(decode) ==
    /\ pc = "split"
    /\ IF buf = <<>> /\ ~eof
       THEN /\ pc' = "read"
            /\ UNCHANGED <<buf, tok, rv, toks, out, scan>>
       ELSE LET r == ScanRecord(buf, eof)
            IN  /\ scan' = Scanned(buf, eof, r)
                /\ IF r.advance < 0 \/ r.advance > Len(buf)
                    THEN /\ pc' = "done"
                         /\ out' = Append(out, Outcome("scanErr", <<>>))
                         /\ UNCHANGED <<buf, tok, rv, toks>>
                    ELSE IF r.has
                    THEN /\ buf' = SliceFrom(buf, r.advance)
                         /\ tok' = r.token
                         /\ toks' = Append(toks, r.token)
                         /\ IF decode
                            THEN Classify(r.token)
                            ELSE UNCHANGED <<rv, out, pc>>
                    ELSE IF eof
                    THEN /\ buf' = <<>>
                         /\ out' = Append(out, Outcome("eof", <<>>))
                         /\ pc' = "done"
                         /\ UNCHANGED <<tok, rv, toks>>
                    ELSE /\ buf' = SliceFrom(buf, r.advance)
                         /\ pc' = "read"
                         /\ UNCHANGED <<tok, rv, toks, out>>
    /\ UNCHANGED <<stream, src, eof, writer>>

Decode == ScanStep(TRUE)

\* Scan's read: the reader delivers a chunk of one or more bytes, with io.EOF
\* at once or on a later read when the chunk is the last.
Read ==
    /\ pc = "read"
    /\ src # <<>>
    /\ \E n \in 1..Len(src) :
          /\ buf' = buf \o SubSeq(src, 1, n)
          /\ src' = SliceFrom(src, n)
          /\ eof' \in (IF n = Len(src) THEN {TRUE, FALSE} ELSE {FALSE})
    /\ pc' = "split"
    /\ UNCHANGED <<stream, tok, rv, toks, out, scan, writer>>

\* Scan's read when the reader has nothing left: (0, io.EOF)
ReadEOF ==
    /\ pc = "read"
    /\ src = <<>>
    /\ eof' = TRUE
    /\ pc' = "split"
    /\ UNCHANGED <<stream, src, buf, tok, rv, toks, out, scan, writer>>

NoWrites ==
    /\ sink = <<>>
    /\ werr = FALSE
    /\ wlog = <<>>
    /\ calls = <<>>

Init == \E s \in Streams : Start(s) /\ NoWrites

Next == Decode \/ Read \/ ReadEOF

Spec == Init /\ [][Next]_vars

----------------------------------------------------------------------------
(* The loop of ExampleScanRecord and the README over bufio.Scanner alone:  *)
(* for s.Scan() { ... s.Bytes() ... }, the tokens kept and not classified. *)

Scan == ScanStep(FALSE)

NextScan == Scan \/ Read \/ ReadEOF

SpecScan == Init /\ [][NextScan]_vars

\* The same loop over a reader that delivers all of data in its first read
\* (strings.NewReader): ScanRecord sees all of it with atEOF false, then, when
\* it asks for more, with atEOF true.  The tokens it emits, in order.
RECURSIVE ScanAll(_, _)
ScanAll(data, atEOF) ==
    LET r == ScanRecord(data, atEOF)
    IN  IF r.has
        THEN <<r.token>> \o ScanAll(SliceFrom(data, r.advance), atEOF)
        ELSE IF atEOF THEN <<>> ELSE ScanAll(data, TRUE)

----------------------------------------------------------------------------
(* Streams of well-formed records, as in TestDecode and TestDecodeTypes:   *)
(* RS, optional white space, a JSON object, optional white space, LF.      *)

Objects == { <<Ch.lbrace, Ch.rbrace>>,
             <<Ch.lbrace, Ch.quote, Ch.a, Ch.quote, Ch.colon, Ch.d1, Ch.rbrace>> }

Pads == { <<>>, <<sp>> }

\* a record as <<white space, object, white space>>
RecordParts == Pads \X Objects \X Pads

Frame(p) == <<rs>> \o p[1] \o p[2] \o p[3] \o <<lf>>

Frames(ps) == [i \in 1..Len(ps) |-> Frame(ps[i])]

\* the records a stream of well-formed records was built from, in order
RECURSIVE PartsOf(_)
PartsOf(s) ==
    IF s = <<>> THEN <<>>
    ELSE LET p == CHOOSE q \in RecordParts : HasPrefix(s, Frame(q))
         IN  <<p>> \o PartsOf(SliceFrom(s, Len(Frame(p))))

InitWF == \E ps \in SeqsUpTo(RecordParts, MaxRecs) : Start(Concat(Frames(ps))) /\ NoWrites

SpecWF == InitWF /\ [][Next]_vars

----------------------------------------------------------------------------
(* WriteRecord (src/jsonseq.go:40-51) into a buffer that a Decoder then     *)
(* reads.  The io.Writer may fail any write, taking a proper prefix of the  *)
(* bytes; WriteRecord returns at the first failed write.                    *)

JSONTexts == { <<Ch.lbrace, Ch.rbrace>>,
               <<Ch.lbrack, Ch.d1, Ch.rbrack>>,
               <<Ch.quote, Ch.a, Ch.quote>>,
               <<Ch.d1>> }

\* the errors the io.Writer may return
Errs == {"short write", "closed pipe"}

\* one call of the io.Writer's Write: it took n bytes of p and returned err
Attempt(p, n, err) == [p |-> p, n |-> n, err |-> err]

\* as WritesUntilError, but for a function that ignores the error of a write
\* and goes on to the next one
WritesUntilError_KeepGoing(ps, k, n, e) ==
    [i \in 1..Len(ps) |->
        IF i = k THEN Attempt(ps[i], n, e) ELSE Attempt(ps[i], Len(ps[i]), "nil")]

\* The calls of the io.Writer's Write that a function issuing the writes ps in
\* order, and returning at the first that fails (if err != nil { return ... }),
\* makes when the writer fails write k (none when k = 0) having taken n bytes
\* and returning e.  src/jsonseq.go:41-50 and 63-68.
WritesUntilError(ps, k, n, e) ==
    [i \in 1..(IF k \in 1..Len(ps) THEN k ELSE Len(ps)) |->
        IF i = k THEN Attempt(ps[i], n, e) ELSE Attempt(ps[i], Len(ps[i]), "nil")]

\* the bytes the io.Writer took in the calls att, one entry per call that took any
RECURSIVE Taken(_)
Taken(att) ==
    IF att = <<>> THEN <<>>
    ELSE (IF Head(att).n = 0 THEN <<>> ELSE <<SubSeq(Head(att).p, 1, Head(att).n)>>)
         \o Taken(Tail(att))

\* a call of WriteRecord or RecordWriter.Write: its argument, the (n, err) it
\* returned (n is 0 for WriteRecord, which returns err only) and the number of
\* calls of the io.Writer's Write it made
Call(op, arg, n, err, nw) == [op |-> op, arg |-> arg, n |-> n, err |-> err, nw |-> nw]

\* the writer fails write k of ps (none when k = 0) after n bytes with error e
WriterFails(ps, k, n, e) ==
    /\ k \in 0..Len(ps)
    /\ e \in Errs
    /\ n \in 0..(IF k = 0 THEN 0 ELSE Len(ps[k]) - 1)

WriteRecord ==
    /\ pc = "write"
    /\ Len(calls) < MaxRecs
    /\ \E json \in JSONTexts : \E k \in 0..3, e \in Errs : \E n \in 0..3 :
          LET writes == WriteRecordWrites(json)
              att == WritesUntilError(writes, k, n, e)
              err == att[Len(att)].err
          IN  /\ WriterFails(writes, k, n, e)
              /\ k = 0 => e = CHOOSE x \in Errs : TRUE
              /\ sink' = sink \o Taken(att)
              /\ wlog' = wlog \o att
              /\ werr' = (err # "nil")
              /\ calls' = Append(calls, Call("WriteRecord", json, 0, err, Len(att)))
    /\ UNCHANGED <<stream, src, buf, eof, pc, tok, rv, toks, out, scan>>

\* RecordWriter.Write, src/jsonseq.go:62-69: the writes, in order
RecordWriterWrites(record) == <<(<<rs>>), record>>

\* what json.Encoder hands to Write: a value and a trailing line feed
EncodedValues == { json \o <<lf>> : json \in JSONTexts }

\* RecordWriter.Write, src/jsonseq.go:62-69
Write ==
    /\ pc = "write"
    /\ Len(calls) < MaxRecs
    /\ \E record \in EncodedValues : \E k \in 0..2, e \in Errs : \E n \in 0..4 :
          LET writes == RecordWriterWrites(record)
              att == WritesUntilError(writes, k, n, e)
              err == att[Len(att)].err
          IN  /\ WriterFails(writes, k, n, e)
              /\ k = 0 => e = CHOOSE x \in Errs : TRUE
              /\ sink' = sink \o Taken(att)
              /\ wlog' = wlog \o att
              /\ werr' = werr
              /\ calls' = Append(calls,
                    Call("Write", record,
                         IF att[1].err # "nil" THEN -1 ELSE att[Len(att)].n + 1,
                         err, Len(att)))
    /\ UNCHANGED <<stream, src, buf, eof, pc, tok, rv, toks, out, scan>>

\* NewDecoder over the bytes written so far
Open ==
    /\ pc = "write"
    /\ stream' = Concat(sink)
    /\ src' = Concat(sink)
    /\ pc' = "split"
    /\ UNCHANGED <<buf, eof, tok, rv, toks, out, scan, writer>>

InitRT ==
    /\ stream = <<>>
    /\ src = <<>>
    /\ buf = <<>>
    /\ eof = FALSE
    /\ pc = "write"
    /\ tok = <<>>
    /\ rv = NoValue
    /\ toks = <<>>
    /\ out = <<>>
    /\ scan = NoScan
    /\ NoWrites

NextRT == WriteRecord \/ Open \/ Decode \/ Read \/ ReadEOF

SpecRT == InitRT /\ [][NextRT]_vars

\* the writers alone
NextW == WriteRecord \/ Write

SpecW == InitRT /\ [][NextW]_vars

----------------------------------------------------------------------------
(* RecordValue on its own, over tokens of every shape its switch tells     *)
(* apart: with and without RS, leading white space, each keyword and each  *)
(* of its prefixes, runs of digits with and without a sign, the openers of *)
(* self-delimiting values, and what may follow them.                       *)

RECURSIVE Prefixes(_)
Prefixes(b) == IF b = <<>> THEN {<<>>} ELSE {b} \cup Prefixes(SubSeq(b, 1, Len(b) - 1))

Keywords == {kwNull, kwTrue, kwFalse}

DigitRuns == SeqsUpTo({Ch.d0, Ch.d1, Ch.d9}, MaxRun) \ {<<>>}

Openers == { <<Ch.lbrace>>, <<Ch.lbrack>>, <<Ch.quote>> }

Bodies ==
    UNION {Prefixes(k) : k \in Keywords}
    \cup DigitRuns
    \cup { <<Ch.minus>> \o d : d \in DigitRuns \cup {<<>>} }
    \cup Openers
    \cup { <<Ch.x>> }

Leads == SeqsUpTo({sp, lf}, MaxRun)

\* a fraction and an exponent, with the white space that ends the number
NumberTails == { <<Ch.dot, Ch.d1, lf>>, <<Ch.e, Ch.d1, sp>> }

Tails == { <<>>, <<sp>>, <<tb>>, <<lf>>, <<cr>>, <<Ch.x>>, <<Ch.dot>>, <<Ch.e>>,
           <<Ch.rbrace, lf>>, <<Ch.x, sp>> } \cup NumberTails

Tokens == { pre \o lead \o body \o tail :
            pre \in {<<>>, <<rs>>}, lead \in Leads, body \in Bodies, tail \in Tails }

InitRV ==
    /\ tok \in Tokens
    /\ pc = "token"
    /\ rv = NoValue
    /\ stream = <<>>
    /\ src = <<>>
    /\ buf = <<>>
    /\ eof = FALSE
    /\ toks = <<>>
    /\ out = <<>>
    /\ scan = NoScan
    /\ NoWrites

\* b, ok := RecordValue(tok)
Validate ==
    /\ pc = "token"
    /\ rv' = RecordValue(tok)
    /\ pc' = IF rv'.fault THEN "panic" ELSE "classified"
    /\ UNCHANGED <<stream, src, buf, eof, tok, toks, out, scan, writer>>

NextRV == Validate

SpecRV == InitRV /\ [][NextRV]_vars

----------------------------------------------------------------------------
(* Claims. *)

IsPrefix(p, q) == Len(p) <= Len(q) /\ SubSeq(q, 1, Len(p)) = p

\* C1: streaming-boundary insensitivity of ScanRecord.  However the reader cuts
\* the stream into chunks, the tokens emitted so far are the first tokens of
\* the run that has the whole stream in its first read, and when Scan has
\* returned false they are exactly that run's tokens, in order.
C1_ChunkInsensitive ==
    /\ IsPrefix(toks, ScanAll(stream, FALSE))
    /\ pc = "done" => toks = ScanAll(stream, FALSE)

\* C1 witness: a chunk boundary inside a record.  A token is out, ScanRecord
\* has seen the start of the next record without atEOF and asked for more, and
\* the rest of that record is still with the reader.
C1_Witness ==
    /\ pc = "read"
    /\ ~eof
    /\ toks # <<>>
    /\ Len(buf) >= 2 /\ buf[1] = rs
    /\ src # <<>> /\ src[1] # rs

\* C2: a stream of n well-formed records.  The first n Decode calls hand the
\* decode function the n records' values in stream order (each from the object's
\* first byte, followed by white space only), none is an error, the call after
\* them returns io.EOF, and the tokens are the n records, each from RS through LF.
C2_WellFormedStream ==
    LET ps == PartsOf(stream)
    IN  /\ stream = Concat(Frames(ps))
        /\ pc # "panic"
        /\ IsPrefix(toks, Frames(ps))
        /\ Len(out) <= Len(ps) + 1
        /\ \A i \in 1..Len(out) :
              out[i] = IF i <= Len(ps)
                       THEN Outcome("decode", ps[i][2] \o ps[i][3] \o <<lf>>)
                       ELSE Outcome("eof", <<>>)
        /\ pc = "done" => toks = Frames(ps) /\ Len(out) = Len(ps) + 1

\* C2 witness: two records, the first with white space before its object, both
\* decoded, then io.EOF.
C2_Witness ==
    /\ pc = "done"
    /\ Len(toks) = 2
    /\ Len(toks[1]) >= 2 /\ toks[1][2] = sp
    /\ Len(out) = 3
    /\ out[1].kind = "decode" /\ out[2].kind = "decode" /\ out[3].kind = "eof"

\* when no further Decode call can be made
Stopped == pc \in {"done", "panic"}

\* C3: an invalid record does not poison the stream.  When a Decode call returned
\* "invalid record", the error carries the bytes of that call's token, and once
\* the loop has stopped every later token of the stream was delivered by a
\* Decode call of its own (to the decode function, or as an invalid record), in
\* order, and the last call returned io.EOF.
C3_InvalidDoesNotPoison ==
    \A i \in 1..Len(out) :
        out[i].kind = "invalid" =>
            /\ out[i].b \in {toks[i], DropRSAndSpace(toks[i])}
            /\ Stopped =>
                  /\ toks = ScanAll(stream, FALSE)
                  /\ Len(out) = Len(toks) + 1
                  /\ \A j \in (i + 1)..Len(toks) : out[j].kind \in {"decode", "invalid"}
                  /\ out[Len(out)].kind = "eof"

\* C4: RecordValue never faults.
C4_NeverFaults == ~rv.fault

\* every run of rs bytes replaced by one rs
RECURSIVE CollapseRS(_)
CollapseRS(s) ==
    IF Len(s) < 2 THEN s
    ELSE IF s[1] = rs /\ s[2] = rs THEN CollapseRS(Tail(s))
    ELSE <<s[1]>> \o CollapseRS(Tail(s))

\* C5: consecutive separators collapse.  The tokens of a stream are the tokens
\* of the same stream with every run of RS bytes replaced by a single RS.
C5_SeparatorsCollapse ==
    pc = "done" => toks = ScanAll(CollapseRS(stream), FALSE)

\* C6: write/read round trip.  After one successful WriteRecord(v) of an object,
\* array or string v, the first token, given to RecordValue, yields (v, true).
C6_RoundTrip ==
    ( /\ pc # "write"
      /\ ~werr
      /\ Len(sink) = 3
      /\ sink[2][1] \in {Ch.lbrace, Ch.lbrack, Ch.quote}
      /\ Len(toks) = 1 )
    => rv = Value(sink[2], TRUE)

\* C7: truncated number detection.  RS d, d a run of digits, yields (d, false);
\* RS d followed by one white space byte yields (d, true).
C7_TruncatedNumber ==
    pc # "token" =>
        \A d \in DigitRuns :
            /\ tok = <<rs>> \o d => rv = Value(d, FALSE)
            /\ \A w \in wsSet : tok = <<rs>> \o d \o <<w>> => rv = Value(d, TRUE)

\* C8: truncated literal detection.  For a keyword k: RS p, p a proper prefix of
\* k, is incomplete; RS k with no white space right after it is incomplete; RS k
\* followed by white space is complete with value k.
C8_TruncatedLiteral ==
    pc # "token" =>
        \A k \in Keywords :
            /\ \A p \in Prefixes(k) \ {<<>>, k} :
                  tok = <<rs>> \o p => ~rv.fault /\ ~rv.ok
            /\ ( /\ HasPrefix(tok, <<rs>> \o k)
                 /\ (Len(tok) = Len(k) + 1 \/ tok[Len(k) + 2] \notin wsSet) )
               => ~rv.fault /\ ~rv.ok
            /\ \A w \in wsSet : tok = <<rs>> \o k \o <<w>> => rv = Value(k, TRUE)

\* the first byte after tok[0] that is not white space, or -1
FirstSignificant(token) ==
    LET rest == SliceFrom(token, 1)
        k == LeadingIn(rest, wsSet)
    IN  IF k < Len(rest) THEN rest[k + 1] ELSE -1

\* C9: self-delimiting values are always complete.  A token of two bytes or more
\* that starts with RS and whose first byte after RS that is not white space is
\* '{', '[' or '"' is valid, whatever follows, also nothing at all.
C9_SelfDelimiting ==
    ( /\ pc # "token"
      /\ Len(tok) >= 2
      /\ tok[1] = rs
      /\ FirstSignificant(tok) \in {Ch.lbrace, Ch.lbrack, Ch.quote} )
    => ~rv.fault /\ rv.ok

\* C9 witness: RS and an opening brace with nothing after it, classified valid.
C9_Witness ==
    /\ pc = "classified"
    /\ tok = <<rs, Ch.lbrace>>
    /\ rv = Value(<<Ch.lbrace>>, TRUE)

\* C10: end of stream and termination.  The loop over Decode stops only with
\* io.EOF: when no further Decode call can be made (every other state has a
\* step: a split round, a read, or the reader's io.EOF), the last call
\* returned io.EOF.
C10_StopsWithEOF ==
    Stopped => (out # <<>> /\ out[Len(out)].kind = "eof")

\* ---------------------------------------------------------------------------
\* The writers, C11, C12, C19

\* all the calls made so far were calls of WriteRecord that returned nil
AllWroteRecords == \A i \in 1..Len(calls) : calls[i].op = "WriteRecord" /\ calls[i].err = "nil"

\* C11: WriteRecord frames every JSON text as RS, the text, LF, written in that
\* order: after any sequence of successful calls WriteRecord(w, j1) ...
\* WriteRecord(w, jn) the writer holds exactly RS j1 LF ... RS jn LF.
C11_WriteRecordFraming ==
    AllWroteRecords =>
        /\ Concat(sink) = Concat([i \in 1..Len(calls) |-> <<rs>> \o calls[i].arg \o <<lf>>])
        /\ Len(wlog) = 3 * Len(calls)
        /\ \A i \in 1..Len(calls) :
              /\ wlog[3 * i - 2].p = <<rs>>
              /\ wlog[3 * i - 1].p = calls[i].arg
              /\ wlog[3 * i].p = <<lf>>

\* two successful calls of WriteRecord with different texts
C11_Witness ==
    /\ AllWroteRecords
    /\ Len(calls) = 2
    /\ calls[1].arg # calls[2].arg

\* the number of calls of the io.Writer's Write made by the first i calls
RECURSIVE WritesBy(_)
WritesBy(i) == IF i = 0 THEN 0 ELSE WritesBy(i - 1) + calls[i].nw

\* the calls of the io.Writer's Write made by call i
CallLog(i) == SubSeq(wlog, WritesBy(i - 1) + 1, WritesBy(i))

\* C12: a write error is returned unchanged and stops the record: when a write
\* to the underlying writer fails, WriteRecord and RecordWriter.Write return
\* that same error and issue no further write for the record, so a failed RS
\* write means the body is never written.
C12_WriteErrorStops ==
    \A i \in 1..Len(calls) :
        LET att == CallLog(i)
        IN  \A j \in 1..Len(att) :
                att[j].err # "nil" =>
                    /\ j = Len(att)
                    /\ calls[i].err = att[j].err

\* WriteRecord failed at its RS write with one error, RecordWriter.Write at its
\* record write with another
C12_Witness ==
    /\ Len(calls) = 2
    /\ calls[1].op = "WriteRecord" /\ calls[1].err = "closed pipe" /\ calls[1].nw = 1
    /\ calls[2].op = "Write" /\ calls[2].err = "short write" /\ calls[2].nw = 2

\* C19: RecordWriter.Write calls the underlying Writer exactly once.
C19_WritesOnce ==
    \A i \in 1..Len(calls) : calls[i].op = "Write" => calls[i].nw = 1


\* ---------------------------------------------------------------------------
\* ScanRecord call by call, C13, C14, C15, C20

\* C13: no empty token while input remains: whenever ScanRecord returns a
\* token the token has length >= 1; with one byte before the first RS it asks
\* for more data or emits a non-empty token.
C13_NoEmptyToken ==
    (scan.called /\ scan.has) => Len(scan.token) >= 1

\* the offset of the first RS after the first non-RS byte of data, or -1
LaterRS(data) ==
    LET k == LeadingIn(data, {rs})
        i == IndexByte(SliceFrom(data, k), rs)
    IN  IF i < 0 THEN -1 ELSE k + i

\* C14: the next record's separator is left for the next call: on a buffer
\* that starts with RS and holds a later RS after some non-RS content, the
\* token is the buffer from its start up to that later RS and advance leaves
\* that later RS first in the buffer, for any number of leading RS bytes.
C14_NextSeparatorLeft ==
    (/\ scan.called
     /\ scan.data # <<>>
     /\ scan.data[1] = rs
     /\ LaterRS(scan.data) >= 0)
    => /\ scan.has
       /\ scan.token = Slice(scan.data, 0, LaterRS(scan.data))
       /\ scan.advance = LaterRS(scan.data)

\* C15: the split protocol is respected: ScanRecord returns no error, an
\* advance between 0 and len(data), advance 0 whenever it returns no token,
\* and it asks for more data only when atEOF is false.
C15_SplitProtocol ==
    /\ \A i \in 1..Len(out) : out[i].kind # "scanErr"
    /\ scan.called =>
        /\ scan.advance \in 0..Len(scan.data)
        /\ ~scan.has => scan.advance = 0
        /\ (~scan.has /\ scan.atEOF) => scan.data = <<>>

\* ScanRecord asked for more data on a record that is not ended yet
C15_Witness ==
    /\ scan.called
    /\ ~scan.has
    /\ ~scan.atEOF
    /\ Len(scan.data) >= 2
    /\ scan.data[1] = rs
    /\ scan.advance = 0

\* C20: every token ScanRecord emits holds an RS at most at index 0, so the
\* value bytes RecordValue marks valid and Decode hands to the decode function
\* hold no RS and never span two records.
C20_SeparatorOnlyFirst ==
    /\ \A i \in 1..Len(toks) : \A j \in 2..Len(toks[i]) : toks[i][j] # rs
    /\ \A i \in 1..Len(out) :
          out[i].kind = "decode" => \A j \in 1..Len(out[i].b) : out[i].b[j] # rs

\* two records of one stream were both handed to the decode function
C20_Witness ==
    /\ Len(toks) = 2
    /\ Len(out) >= 2
    /\ out[1].kind = "decode" /\ out[1].b # <<>>
    /\ out[2].kind = "decode" /\ out[2].b # <<>>


\* ---------------------------------------------------------------------------
\* RecordValue on numbers and on white space, C16, C17, C18

\* the digit runs that are JSON integers: no leading zero
JSONInts == { d \in DigitRuns : Len(d) = 1 \/ d[1] # Ch.d0 }

\* C16: signed and fractional numbers ended by white space are complete: for
\* RS n w, n a JSON number that starts with '-' and a digit or that has a
\* fraction or an exponent, w white space, RecordValue returns flag true.
C16_SignedFractional ==
    pc # "token" =>
        \A d \in JSONInts :
            /\ \A w \in wsSet : tok = <<rs, Ch.minus>> \o d \o <<w>> => (~rv.fault /\ rv.ok)
            /\ \A t \in NumberTails : tok = <<rs>> \o d \o t => (~rv.fault /\ rv.ok)

\* C17 as stated: a number cut after '.' or after an exponent marker, RS d '.'
\* or RS d 'e' with nothing after, is not detected as truncated: RecordValue
\* returns flag true.
C17_CutNumberPasses ==
    pc # "token" =>
        \A d \in DigitRuns : \A c \in {Ch.dot, Ch.e} :
            tok = <<rs>> \o d \o <<c>> => (~rv.fault /\ rv.ok)

\* C17, amended: a number cut after '.' or after an exponent marker is
\* reported as truncated: for RS d '.' and RS d 'e' with nothing after,
\* RecordValue returns the bytes after RS and flag false, since the byte after
\* the digits is not white space.
C17_CutNumberDetected ==
    pc # "token" =>
        \A d \in DigitRuns : \A c \in {Ch.dot, Ch.e} :
            tok = <<rs>> \o d \o <<c>> => rv = Value(d \o <<c>>, FALSE)

\* RS 1 '.' classified as invalid
C17_Witness ==
    /\ pc = "classified"
    /\ tok = <<rs, Ch.d1, Ch.dot>>
    /\ rv = Value(<<Ch.d1, Ch.dot>>, FALSE)

\* b without its leading and trailing white space; b has a byte that is not
\* white space
TrimSpace(b) ==
    LET first == CHOOSE i \in 1..Len(b) : b[i] \notin wsSet /\ \A j \in 1..(i - 1) : b[j] \in wsSet
        last == CHOOSE i \in 1..Len(b) : b[i] \notin wsSet /\ \A j \in (i + 1)..Len(b) : b[j] \in wsSet
    IN  SubSeq(b, first, last)

\* C18: value trimming: for a token of two bytes or more that starts with RS
\* and has a byte after RS that is not white space, the value RecordValue
\* returns runs from the first such byte to the last one, with no white space
\* before or after.
C18_ValueTrimmed ==
    ( /\ pc = "classified"
      /\ Len(tok) >= 2
      /\ tok[1] = rs
      /\ FirstSignificant(tok) # -1 )
    => rv.b = TrimSpace(SliceFrom(tok, 1))


====
